---- MODULE Spec2Model ----
(***************************************************************************)
(* OSCompatible::thread (include/OSCompatible/thread.hpp): a thread handle *)
(* that owns one native thread and a promise/future pair carrying the      *)
(* callable's outcome from the worker to the owner.                        *)
(*                                                                         *)
(* One owner thread issues the handle operations one after the other; an   *)
(* operation that blocks (join, getResult, move-assignment onto a joinable *)
(* target, the Windows properties constructor) is a call step and a return *)
(* step.  Every spawned worker runs concurrently with the owner.           *)
(*                                                                         *)
(* A handle object is a slot h of Handles; the objects live until the      *)
(* program exits.  The constructor of slot h creates promise/future shared *)
(* state number h and, when it spawns, native thread number h, so the      *)
(* `this` the worker closure of thread t captured is slot t.               *)
(***************************************************************************)
EXTENDS Integers, Sequences, FiniteSets, TLC

VARIABLES
    platform,   \* "posix" or "win32": the branch the #ifdef _WIN32 selects
    obj,        \* obj[h]: the members of handle h
    life,       \* life[h]: the lifecycle state of spec section 4.4 (history)
    fresh,      \* fresh[h]: h was built with a callable and never took part in a move
    thr,        \* thr[t]: native thread t and its worker closure
    chan,       \* chan[c]: shared state c of a promise/future pair
    ownerPc,    \* the owner: idle, or blocked inside an operation
    ret,        \* what the owner's last completed operation handed back
    nOps,       \* how many operations the owner has started
    crashed,    \* the process was killed (std::terminate, segmentation fault)
    props,      \* the Properties handed to the properties constructor / Init
    ncores,     \* how many cores the machine has
    ctorPc,     \* the properties constructor: native calls made so far, outcome
    m_attr,     \* the pthread_attr_t member of the handle under construction
    native,     \* the native thread of that handle: what it was given to run with
    legacy,     \* the OSCompatibleThread object: m_isInitialized, last status
    lobj,       \* lobj[o]: the members of OSCompatibleThread object o
    lthr,       \* lthr[t]: native thread t spawned by an Init
    lpc,        \* the caller of Join: idle, or blocked in pthread_join
    lret,       \* what the last Init or Join returned, and what it was called on
    store,      \* the storage whose address the caller handed to Join
    closure,    \* closure[t]: the heap closure handed to native thread t
    orphans,    \* closures on the heap that no thread was handed and nobody deleted
    moved       \* moved[h]: h was the source or the target of a move (history)

\* The variables of the attribute side of a construction.
propVars == <<props, ncores, ctorPc, m_attr, native, legacy>>

\* The variables of the class OSCompatibleThread.
legacyVars == <<lobj, lthr, lpc, lret, store>>

\* The heap closures of the constructors of OSCompatible::thread.
heapVars == <<closure, orphans>>

vars == <<platform, obj, life, fresh, thr, chan, ownerPc, ret, nOps, crashed,
          propVars, legacyVars, heapVars, moved>>

-----------------------------------------------------------------------------
(* Bounds and input sets *)

NumHandles == 2
Handles == 1..NumHandles

\* The owner starts at most MaxOps operations (constructions included).
MaxOps == 4

Platforms == {"posix", "win32"}

\* What the callable bound in the constructor of handle h does when invoked:
\* it returns a value, returns nothing, or raises a failure.  The payloads of
\* different callables differ.
Value(h) == "v" \o ToString(h)
Failure(h) == "E" \o ToString(h)
Funcs(h) == {[kind |-> "returns", x |-> Value(h)],
             [kind |-> "void", x |-> "none"],
             [kind |-> "raises", x |-> Failure(h)]}

-----------------------------------------------------------------------------
(* Values of the members *)

\* pthread_t() on POSIX, nullptr HANDLE on Windows.
NoThread == 0
\* A null shared_ptr<promise> / a future without shared state.
NoState == 0
\* std::any{} : has_value() is false.
EmptyAny == "empty_any"
\* A shared state nobody has written yet.
Empty == [kind |-> "empty", x |-> "none"]

Idle == [st |-> "idle", h |-> 0, src |-> 0, ok |-> TRUE]

\* What an operation op on handle h handed back: a value ("returned"), an
\* exception ("thrown"), or the death of the process ("crash").  NoRet is the
\* normal completion of an operation that returns nothing.
NoRet == [op |-> "none", h |-> 0, kind |-> "none", x |-> "none"]

Ret(op, h, kind, x) == [op |-> op, h |-> h, kind |-> kind, x |-> x]

\* Storage in which no handle has been constructed.  The two flags are the
\* Windows barrier members; only the Windows properties constructor and the
\* worker it spawns use them.
Unborn == [st |-> "unborn", m_handle |-> NoThread, m_promise |-> NoState,
           m_future |-> NoState, m_releaseThread |-> FALSE,
           m_propertiesInitialized |-> TRUE]

\* thread::thread() / the member initialisers of the callable constructors:
\* a new promise, and the future of its shared state.
NewObj(h, handle) ==
    [Unborn EXCEPT !.st = "alive", !.m_handle = handle, !.m_promise = h,
                   !.m_future = h]

NoWorker == [pc |-> "none", func |-> [kind |-> "void", x |-> "none"], os |-> "none"]

\* The handle the worker closure of thread t captured as `this`.
ThisOf(t) == t

-----------------------------------------------------------------------------
(* Pure functions *)

\* bool thread::joinable() const
joinable(h) == obj[h].m_handle # NoThread

\* A thunk that reports a callable without return value as a failure: C15
\* does not hold of it.
ThunkFailingOnVoid(f) ==
    CASE f.kind = "void"    -> [kind |-> "exception", x |-> "no_value"]
      [] f.kind = "returns" -> [kind |-> "value", x |-> f.x]
      [] f.kind = "raises"  -> [kind |-> "exception", x |-> f.x]

\* A thunk that hands the promise an empty value whatever the callable
\* returns: C1 does not hold of it.
ThunkLosingValue(f) ==
    CASE f.kind = "raises" -> [kind |-> "exception", x |-> f.x]
      [] OTHER             -> [kind |-> "value", x |-> EmptyAny]

\* The worker thunk: what it hands to the promise for a callable behaving as f.
\*   void callable    -> set_value({})
\*   returning v      -> set_value(v)
\*   raising E        -> set_exception(current_exception())
Thunk(f) ==
    CASE f.kind = "void"    -> [kind |-> "value", x |-> EmptyAny]
      [] f.kind = "returns" -> [kind |-> "value", x |-> f.x]
      [] f.kind = "raises"  -> [kind |-> "exception", x |-> f.x]

\* A get() that throws a generic failure in place of the stored exception:
\* C2 does not hold of it.
FutureGetWrapping(s) ==
    CASE s.kind = "value"     -> [kind |-> "returned", x |-> s.x]
      [] s.kind = "exception" -> [kind |-> "thrown", x |-> "runtime_error"]

\* std::future::get() on a ready shared state: returns the value or rethrows
\* the stored exception.
FutureGet(s) ==
    CASE s.kind = "value"     -> [kind |-> "returned", x |-> s.x]
      [] s.kind = "exception" -> [kind |-> "thrown", x |-> s.x]

\* What a native call does when the standard leaves it undefined: the process
\* dies, or the call comes back with an error.
UBOutcomes == {"crash", "error"}

\* pthread_join / WaitForSingleObject handed the reset handle value.
NativeJoinStale ==
    IF platform = "win32" THEN {"error"}   \* WAIT_FAILED
    ELSE UBOutcomes                        \* pthread_join(pthread_t())

\* pthread_detach / CloseHandle handed the reset handle value.
NativeDetachStale ==
    IF platform = "win32" THEN {"error"}   \* CloseHandle(nullptr) == FALSE
    ELSE UBOutcomes                        \* pthread_detach(pthread_t())

-----------------------------------------------------------------------------
(* Properties and thread attributes *)

DEFAULT_PRIORITY == 255
DEFAULT_POLICY == 255
DEFAULT_AFFINITY == << >>

DEFAULT_PROPERTIES ==
    [priority |-> DEFAULT_PRIORITY, policy |-> DEFAULT_POLICY,
     affinity |-> DEFAULT_AFFINITY]

\* The cores of a machine with n cores, as the indices of an affinity vector.
AllCores(n) == 0 .. (n - 1)

\* What a thread runs with when nothing is asked for: the default policy and
\* priority, every core of the machine.
DefaultAttr(n) ==
    [init |-> TRUE, policy |-> 0, priority |-> 0, affinity |-> AllCores(n),
     explicit |-> FALSE]

\* m_attr before pthread_attr_init.
NoAttr == [DefaultAttr(0) EXCEPT !.init = FALSE]

\* No native thread: none was created, or it was joined.
NoNative == [st |-> "none", policy |-> 0, priority |-> 0, affinity |-> {}]

\* OSCompatibleThread::OSCompatibleThread(): m_isInitialized(false).
NoLegacy == [m_isInitialized |-> FALSE, spawned |-> FALSE, status |-> "none"]

\* How many OSCompatibleThread objects the caller has, and how many native
\* threads their Inits can spawn in all.
NumLegacy == 2
MaxSpawns == 3

LObjs == 1..NumLegacy
LThreads == 1..MaxSpawns

\* OSCompatibleThread::OSCompatibleThread(): m_thread(), m_isInitialized(false).
NewLegacy == [m_isInitialized |-> FALSE, m_thread |-> 0]

\* A native thread no Init has spawned yet; `by` is the object whose Init
\* spawns it.
NoLThread == [pc |-> "none", os |-> "none", by |-> 0]

\* The caller is not inside Join.
LIdle == [st |-> "idle", o |-> 0, arg |-> "null"]

\* What a member function returned: op on object o, the native thread t it
\* spawned or joined (0 if none), the status, the errno of a refused
\* pthread_create, the returnValue argument; before and live are the members
\* of o and its not yet reaped threads when the call was made.
NoLRet == [op |-> "none", o |-> 0, t |-> 0, status |-> "none", errno |-> "none",
           arg |-> "null", before |-> NewLegacy, live |-> {}]

\* Storage of the caller that nobody has written.
Unset == [from |-> 0]

-----------------------------------------------------------------------------
(* Initial state *)

Init ==
    /\ platform \in Platforms
    /\ obj = [h \in Handles |-> Unborn]
    /\ life = [h \in Handles |-> "Unborn"]
    /\ fresh = [h \in Handles |-> FALSE]
    /\ thr = [t \in Handles |-> NoWorker]
    /\ chan = [c \in Handles |-> Empty]
    /\ ownerPc = Idle
    /\ ret = NoRet
    /\ nOps = 0
    /\ crashed = FALSE
    /\ props = DEFAULT_PROPERTIES
    /\ ncores = 1
    /\ ctorPc = [st |-> "idle", i |-> 0, err |-> "none"]
    /\ m_attr = NoAttr
    /\ native = NoNative
    /\ legacy = NoLegacy
    /\ lobj = [o \in LObjs |-> NewLegacy]
    /\ lthr = [t \in LThreads |-> NoLThread]
    /\ lpc = LIdle
    /\ lret = NoLRet
    /\ store = Unset
    /\ closure = [t \in Handles |-> "none"]
    /\ orphans = 0
    /\ moved = [h \in Handles |-> FALSE]

\* The owner is between two operations and starts the next one.
OwnerFree ==
    /\ ~crashed
    /\ ownerPc = Idle
    /\ nOps < MaxOps
    /\ nOps' = nOps + 1

\* A new handle is constructed in slot h: the slots are taken in order.
Free(h) ==
    /\ obj[h].st = "unborn"
    /\ \A g \in Handles : g < h => obj[g].st # "unborn"

-----------------------------------------------------------------------------
(* Constructors *)

\* A default constructor that satisfies its own promise with an empty value:
\* C38 does not hold of it.
DefaultCtorSatisfied(h) ==
    /\ OwnerFree
    /\ Free(h)
    /\ obj' = [obj EXCEPT ![h] = NewObj(h, NoThread)]
    /\ chan' = [chan EXCEPT ![h] = [kind |-> "value", x |-> EmptyAny]]
    /\ life' = [life EXCEPT ![h] = "Idle"]
    /\ ret' = NoRet
    /\ UNCHANGED <<heapVars, propVars, legacyVars, platform, fresh, moved, thr, ownerPc, crashed>>

\* thread::thread()
DefaultCtor(h) ==
    /\ OwnerFree
    /\ Free(h)
    /\ obj' = [obj EXCEPT ![h] = NewObj(h, NoThread)]
    /\ life' = [life EXCEPT ![h] = "Idle"]
    /\ ret' = NoRet
    /\ UNCHANGED <<heapVars, propVars, legacyVars, platform, fresh, moved, thr, chan, ownerPc, crashed>>

\* `new std::function<void()>(std::move(m_func))` followed by a native spawn
\* that succeeds: native thread t holds the closure.
ClosureSpawned(t) ==
    /\ closure' = [closure EXCEPT ![t] = "live"]
    /\ UNCHANGED orphans

\* The same followed by a native spawn that fails: the constructors throw
\* with the closure still on the heap, no `delete m_funcptr` precedes the
\* throw.
ClosureSpawnFailed ==
    /\ orphans' = orphans + 1
    /\ UNCHANGED closure

\* threadFuncWrapper, `delete func` once (*func)() has returned.
ClosureDeleted(t) ==
    /\ closure' = [closure EXCEPT ![t] = IF @ = "live" THEN "released" ELSE "misused"]
    /\ UNCHANGED orphans

\* thread::thread(Function&&, Args&&...): the native spawn succeeds or fails.
Ctor(h, f, spawned) ==
    /\ OwnerFree
    /\ Free(h)
    /\ IF spawned
       THEN /\ obj' = [obj EXCEPT ![h] = NewObj(h, h)]
            /\ thr' = [thr EXCEPT ![h] = [pc |-> "ready", func |-> f, os |-> "joinable"]]
            /\ life' = [life EXCEPT ![h] = "Running"]
            /\ fresh' = [fresh EXCEPT ![h] = TRUE]
            /\ UNCHANGED moved
            /\ ret' = NoRet
            /\ ClosureSpawned(h)
       ELSE /\ ret' = Ret("thread(f)", h, "thrown", "runtime_error")
            /\ ClosureSpawnFailed
            /\ UNCHANGED <<obj, thr, life, fresh, moved>>
    /\ UNCHANGED <<propVars, legacyVars, platform, chan, ownerPc, crashed>>

-----------------------------------------------------------------------------
(* The constructor taking Properties *)

\* The Properties the owner passes: the defaults, a concrete priority and
\* policy with one of two cores flagged, and the defaults with every core
\* flagged.
PropsSet == {DEFAULT_PROPERTIES,
             [priority |-> 10, policy |-> 1, affinity |-> <<TRUE, FALSE>>],
             [DEFAULT_PROPERTIES EXCEPT !.affinity = <<TRUE, TRUE>>]}

Range(seq) == {seq[i] : i \in DOMAIN seq}

\* The loop of SetAffinity: how many cores the vector flags.
CoresCnt(aff) == Cardinality({i \in DOMAIN aff : aff[i]})

\* void thread::SetPolicy(const Properties&): the native calls it makes.
SetPolicy(pf, p) ==
    IF p.policy = DEFAULT_POLICY THEN << >>
    ELSE IF pf = "win32" THEN << >>
    ELSE <<"pthread_attr_setschedpolicy">>

\* A SetPriority without the test for the sentinel: C22 does not hold of it.
SetPriorityIgnoringSentinel(pf, p) ==
    IF pf = "win32" THEN <<"SetThreadPriority">>
    ELSE <<"pthread_attr_setschedparam">>

\* void thread::SetPriority(const Properties&): the native calls it makes.
\* The sentinel it tests against is DEFAULT_POLICY.
SetPriority(pf, p) ==
    IF p.priority = DEFAULT_POLICY THEN << >>
    ELSE IF pf = "win32" THEN <<"SetThreadPriority">>
    ELSE <<"pthread_attr_setschedparam">>

\* A SetAffinity without the all-cores-selected shortcut: C19 does not hold
\* of it.
SetAffinityAlwaysCalling(pf, p) ==
    IF p.affinity = << >> THEN << >>
    ELSE IF pf = "win32" THEN <<"SetThreadAffinityMask">>
    ELSE <<"pthread_attr_setaffinity_np">>

\* void thread::SetAffinity(const Properties&): the native calls it makes.
SetAffinity(pf, p) ==
    IF p.affinity = << >> THEN << >>
    ELSE IF CoresCnt(p.affinity) = Len(p.affinity) THEN << >>
    ELSE IF pf = "win32" THEN <<"SetThreadAffinityMask">>
    ELSE <<"pthread_attr_setaffinity_np">>

\* A constructor body that applies the priority before the policy: the
\* amended C18 does not hold of it.
CtorPropsCallsPriorityFirst(pf, p) ==
    IF pf = "win32"
    THEN <<"CreateThread">> \o SetPriority(pf, p) \o SetPolicy(pf, p)
             \o SetAffinity(pf, p)
    ELSE <<"pthread_attr_init">> \o SetPriority(pf, p) \o SetPolicy(pf, p)
             \o SetAffinity(pf, p)
             \o <<"pthread_attr_setinheritsched", "pthread_create">>

\* The native calls of the constructor body, in the order it makes them.
CtorPropsCalls(pf, p) ==
    IF pf = "win32"
    THEN <<"CreateThread">> \o SetPolicy(pf, p) \o SetPriority(pf, p)
             \o SetAffinity(pf, p)
    ELSE <<"pthread_attr_init">> \o SetPolicy(pf, p) \o SetPriority(pf, p)
             \o SetAffinity(pf, p)
             \o <<"pthread_attr_setinheritsched", "pthread_create">>

\* The native calls whose failure the code turns into an exception: all but
\* SetThreadAffinityMask, whose result is dropped.
Checked == {"CreateThread", "SetThreadPriority", "pthread_attr_init",
            "pthread_attr_setschedpolicy", "pthread_attr_setschedparam",
            "pthread_attr_setaffinity_np", "pthread_attr_setinheritsched",
            "pthread_create"}

\* The constructor throws: a call it makes and checks is rejected.
CtorPropsThrows(pf, p, fail) ==
    fail \in Range(CtorPropsCalls(pf, p)) \cap Checked

\* thread::thread(const Properties&, Function&&, Args&&...), the POSIX
\* branch: the attribute calls, then pthread_create.  A rejected call throws
\* and no thread exists.
CtorPropsPosix(h, f, p, fail) ==
    /\ OwnerFree
    /\ Free(h)
    /\ platform = "posix"
    /\ IF CtorPropsThrows(platform, p, fail)
       THEN /\ ret' = Ret("thread(p,f)", h, "thrown", "runtime_error")
            /\ IF fail = "pthread_create"
               THEN ClosureSpawnFailed
               ELSE UNCHANGED heapVars
            /\ UNCHANGED <<obj, thr, life, fresh, moved>>
       ELSE /\ obj' = [obj EXCEPT ![h] = NewObj(h, h)]
            /\ thr' = [thr EXCEPT ![h] = [pc |-> "ready", func |-> f,
                                           os |-> "joinable"]]
            /\ life' = [life EXCEPT ![h] = "Running"]
            /\ fresh' = [fresh EXCEPT ![h] = TRUE]
            /\ UNCHANGED moved
            /\ ret' = NoRet
            /\ ClosureSpawned(h)
    /\ UNCHANGED <<propVars, legacyVars, platform, chan, ownerPc, crashed>>

\* A constructor that starts with the barrier open: C31 does not hold of it.
BarrierInitOpen == [m_releaseThread |-> TRUE, m_propertiesInitialized |-> TRUE]

\* The member initialisers of the Windows branch: m_releaseThread(false),
\* m_propertiesInitialized(false).
BarrierInit == [m_releaseThread |-> FALSE, m_propertiesInitialized |-> FALSE]

\* thread::thread(const Properties&, Function&&, Args&&...), the Windows
\* branch up to the property calls: CreateThread, the worker starts and
\* stops at the barrier, the owner goes on to the property calls
\* (WinSetProperties) and then releases the worker (WinRelease,
\* WinSetInitialized, WinNotify).  `fail` is the native call that is refused.
CtorPropsWin(h, f, p, fail) ==
    /\ OwnerFree
    /\ Free(h)
    /\ platform = "win32"
    /\ IF fail = "CreateThread"
       THEN /\ ret' = Ret("thread(p,f)", h, "thrown", "runtime_error")
            /\ ClosureSpawnFailed
            /\ UNCHANGED <<obj, thr, ownerPc>>
       ELSE /\ ClosureSpawned(h)
            /\ obj' = [obj EXCEPT ![h] =
                         [NewObj(h, h) EXCEPT
                              !.st = "constructing",
                              !.m_releaseThread = BarrierInit.m_releaseThread,
                              !.m_propertiesInitialized =
                                  BarrierInit.m_propertiesInitialized]]
            /\ thr' = [thr EXCEPT ![h] = [pc |-> "barrier", func |-> f,
                                           os |-> "joinable"]]
            /\ ownerPc' = [st |-> "properties", h |-> h, src |-> 0,
                           ok |-> ~CtorPropsThrows(platform, p, fail)]
            /\ UNCHANGED ret
    /\ UNCHANGED <<propVars, legacyVars, platform, life, fresh, moved, chan, crashed>>

\* Windows, the try block: SetPolicy, SetPriority and SetAffinity act on the
\* thread that already exists.  They return, or one of them throws into the
\* catch block; either way the owner goes on to release the worker.
WinSetProperties ==
    /\ ~crashed
    /\ ownerPc.st = "properties"
    /\ ownerPc' = [ownerPc EXCEPT !.st = "release"]
    /\ UNCHANGED <<heapVars, propVars, legacyVars, platform, obj, life, fresh, moved, thr, chan, ret, nOps, crashed>>

\* Windows, after the property calls, in the try block or in the catch
\* block: m_releaseThread = true.
WinRelease ==
    /\ ~crashed
    /\ ownerPc.st = "release"
    /\ obj' = [obj EXCEPT ![ownerPc.h].m_releaseThread = TRUE]
    /\ ownerPc' = [ownerPc EXCEPT !.st = "setinit"]
    /\ UNCHANGED <<heapVars, propVars, legacyVars, platform, life, fresh, moved, thr, chan, ret, nOps, crashed>>

\* Windows: m_propertiesInitialized = true in the try block, false in the
\* catch block.
WinSetInitialized ==
    /\ ~crashed
    /\ ownerPc.st = "setinit"
    /\ obj' = [obj EXCEPT ![ownerPc.h].m_propertiesInitialized = ownerPc.ok]
    /\ ownerPc' = [ownerPc EXCEPT !.st = "notify"]
    /\ UNCHANGED <<heapVars, propVars, legacyVars, platform, life, fresh, moved, thr, chan, ret, nOps, crashed>>

\* Windows: m_cv.notify_one() wakes the worker if it waits.  After it the
\* try block ends the construction; the catch block goes on to join().
WinNotify ==
    /\ ~crashed
    /\ ownerPc.st = "notify"
    /\ LET h == ownerPc.h IN
       /\ thr' = [thr EXCEPT ![h].pc = IF @ = "waiting" THEN "barrier" ELSE @]
       /\ IF ownerPc.ok
          THEN /\ obj' = [obj EXCEPT ![h].st = "alive"]
               /\ life' = [life EXCEPT ![h] = "Running"]
               /\ fresh' = [fresh EXCEPT ![h] = TRUE]
               /\ UNCHANGED moved
               /\ ownerPc' = Idle
          ELSE /\ ownerPc' = [ownerPc EXCEPT !.st = "ctorJoin"]
               /\ UNCHANGED <<obj, life, fresh, moved>>
    /\ ret' = NoRet
    /\ UNCHANGED <<heapVars, propVars, legacyVars, platform, chan, nOps, crashed>>

\* Windows catch block: join() returns, the constructor throws, no handle
\* has been constructed.
WinCtorJoinReturn ==
    /\ ~crashed
    /\ ownerPc.st = "ctorJoin"
    /\ LET h == ownerPc.h IN
       /\ thr[obj[h].m_handle].pc = "terminated"
       /\ thr' = [thr EXCEPT ![obj[h].m_handle].os = "joined"]
       /\ obj' = [obj EXCEPT ![h] = Unborn]
       /\ ret' = Ret("thread(p,f)", h, "thrown", "runtime_error")
    /\ ownerPc' = Idle
    /\ UNCHANGED <<heapVars, propVars, legacyVars, platform, life, fresh, moved, chan, nOps, crashed>>

\* The predicate of m_cv.wait in the worker closure: [this]() { return
\* m_releaseThread; }.
BarrierPasses(t) == obj[ThisOf(t)].m_releaseThread

\* Windows worker closure: m_cv.wait(lock, pred) tests m_releaseThread.  When
\* it is set the worker goes on, to the callable if m_propertiesInitialized
\* and to its end otherwise.
BarrierCheck(t) ==
    /\ ~crashed
    /\ thr[t].pc = "barrier"
    /\ thr' = [thr EXCEPT ![t].pc =
                 IF ~BarrierPasses(t) THEN "checked"
                 ELSE IF obj[ThisOf(t)].m_propertiesInitialized THEN "ready"
                 ELSE "terminated"]
    /\ IF BarrierPasses(t) /\ ~obj[ThisOf(t)].m_propertiesInitialized
       THEN ClosureDeleted(t)
       ELSE UNCHANGED heapVars
    /\ UNCHANGED <<propVars, legacyVars, platform, obj, life, fresh, moved, chan, ownerPc, ret, nOps, crashed>>

\* Windows worker closure: the predicate was false, the worker blocks on the
\* condition variable.
BarrierWait(t) ==
    /\ ~crashed
    /\ thr[t].pc = "checked"
    /\ thr' = [thr EXCEPT ![t].pc = "waiting"]
    /\ UNCHANGED <<heapVars, propVars, legacyVars, platform, obj, life, fresh, moved, chan, ownerPc, ret, nOps, crashed>>

\* Windows worker closure: a wait on a condition variable may end without a
\* notification; the predicate is then tested again.
BarrierSpuriousWake(t) ==
    /\ ~crashed
    /\ thr[t].pc = "waiting"
    /\ thr' = [thr EXCEPT ![t].pc = "barrier"]
    /\ UNCHANGED <<heapVars, propVars, legacyVars, platform, obj, life, fresh, moved, chan, ownerPc, ret, nOps, crashed>>

-----------------------------------------------------------------------------
(* The worker *)

\* The worker closure and threadFuncWrapper, run by native thread t: the
\* closure invokes boundFunc(), hands the outcome to the promise it reaches
\* through the captured `this` (m_promise->set_value / set_exception), then
\* threadFuncWrapper deletes the closure and the thread terminates.
\*   - this->m_promise is null (the handle was moved from): undefined
\*     behaviour, the process dies or the write is lost;
\*   - the shared state is already satisfied: set_value throws, the catch
\*     block's set_exception throws again out of the thread: std::terminate.
Worker(t, ub) ==
    /\ ~crashed
    /\ thr[t].pc = "ready"
    /\ LET p == obj[ThisOf(t)].m_promise IN
       IF p = NoState
       THEN /\ ub \in UBOutcomes
            /\ crashed' = (ub = "crash")
            /\ thr' = [thr EXCEPT ![t].pc = IF ub = "crash" THEN "ready" ELSE "terminated"]
            /\ chan' = chan
            /\ IF ub = "crash" THEN UNCHANGED heapVars ELSE ClosureDeleted(t)
       ELSE /\ ub = "error"
            /\ IF chan[p] = Empty
               THEN /\ chan' = [chan EXCEPT ![p] = Thunk(thr[t].func)]
                    /\ thr' = [thr EXCEPT ![t].pc = "terminated"]
                    /\ crashed' = FALSE
                    /\ ClosureDeleted(t)
               ELSE /\ crashed' = TRUE
                    /\ UNCHANGED <<chan, thr, heapVars>>
    /\ UNCHANGED <<propVars, legacyVars, platform, obj, life, fresh, moved, ownerPc, ret, nOps>>

-----------------------------------------------------------------------------
(* Operations of the owner *)

\* What pthread_join / WaitForSingleObject does with handle value t: it waits
\* for a thread that is still joinable, anything else is a stale handle.
NativeJoin(t) ==
    IF t # NoThread /\ thr[t].os = "joinable" THEN {"wait"} ELSE NativeJoinStale

\* What pthread_detach / CloseHandle does with handle value t.
NativeDetach(t) ==
    IF t # NoThread /\ thr[t].os = "joinable" THEN {"ok"} ELSE NativeDetachStale

\* void thread::join(), up to the native join.  No state is tested before the
\* native call: m_handle goes to it as it is.
JoinCall(h, o) ==
    /\ OwnerFree
    /\ obj[h].st = "alive"
    /\ o \in NativeJoin(obj[h].m_handle)
    /\ CASE o = "wait" ->
                /\ ownerPc' = [st |-> "join", h |-> h, src |-> 0, ok |-> TRUE]
                /\ UNCHANGED <<ret, crashed>>
         [] o = "error" ->
                /\ ret' = Ret("join", h, "thrown", "runtime_error")
                /\ UNCHANGED <<ownerPc, crashed>>
         [] o = "crash" ->
                /\ ret' = Ret("join", h, "crash", "none")
                /\ crashed' = TRUE
                /\ UNCHANGED ownerPc
    /\ UNCHANGED <<heapVars, propVars, legacyVars, platform, obj, life, fresh, moved, thr, chan>>

\* A native join that does not wait for the thread: C4 does not hold of it.
NativeJoinDoneAtOnce(t) == thr[t].pc \in {"ready", "terminated"}

\* The native join returns once the thread has terminated.
NativeJoinDone(t) == thr[t].pc = "terminated"

\* A join() that rethrows the failure the callable raised: C16 does not hold
\* of it.
JoinReturnRethrowing ==
    /\ ~crashed
    /\ UNCHANGED nOps
    /\ ownerPc.st = "join"
    /\ LET h == ownerPc.h
           t == obj[h].m_handle IN
       /\ NativeJoinDone(t)
       /\ obj' = [obj EXCEPT ![h].m_handle = NoThread]
       /\ thr' = [thr EXCEPT ![t].os = "joined"]
       /\ life' = [life EXCEPT ![h] = "Joined"]
       /\ ret' = IF thr[t].func.kind = "raises"
                 THEN Ret("join", h, "thrown", thr[t].func.x)
                 ELSE NoRet
    /\ ownerPc' = Idle
    /\ UNCHANGED <<heapVars, propVars, legacyVars, platform, fresh, moved, chan, crashed>>

\* void thread::join(), from the return of the native join: the handle is reset.
JoinReturn ==
    /\ ~crashed
    /\ UNCHANGED nOps
    /\ ownerPc.st = "join"
    /\ LET h == ownerPc.h
           t == obj[h].m_handle IN
       /\ NativeJoinDone(t)
       /\ obj' = [obj EXCEPT ![h].m_handle = NoThread]
       /\ thr' = [thr EXCEPT ![t].os = "joined"]
       /\ life' = [life EXCEPT ![h] = "Joined"]
       /\ ret' = NoRet
    /\ ownerPc' = Idle
    /\ UNCHANGED <<heapVars, propVars, legacyVars, platform, fresh, moved, chan, crashed>>

\* A detach() that lets go of the promise and the future with the native
\* handle: C13 does not hold of it.
AfterDetachDroppingChannel(h) ==
    [obj[h] EXCEPT !.m_handle = NoThread, !.m_promise = NoState,
                   !.m_future = NoState]

\* A detach() that does not reset m_handle: C25 does not hold of it.
AfterDetachKeepingHandle(h) == obj[h]

\* The members of handle h after a successful detach(): m_handle is reset,
\* nothing else is touched.
AfterDetach(h) == [obj[h] EXCEPT !.m_handle = NoThread]

\* void thread::detach()
Detach(h, o) ==
    /\ OwnerFree
    /\ obj[h].st = "alive"
    /\ o \in NativeDetach(obj[h].m_handle)
    /\ LET t == obj[h].m_handle IN
       CASE o = "ok" ->
                /\ obj' = [obj EXCEPT ![h] = AfterDetach(h)]
                /\ thr' = [thr EXCEPT ![t].os = "detached"]
                /\ life' = [life EXCEPT ![h] = "Detached"]
                /\ ret' = NoRet
                /\ UNCHANGED crashed
         [] o = "error" ->
                /\ ret' = Ret("detach", h, "thrown", "runtime_error")
                /\ UNCHANGED <<obj, thr, life, crashed>>
         [] o = "crash" ->
                /\ ret' = Ret("detach", h, "crash", "none")
                /\ crashed' = TRUE
                /\ UNCHANGED <<obj, thr, life>>
    /\ UNCHANGED <<heapVars, propVars, legacyVars, platform, fresh, moved, chan, ownerPc>>

\* std::any thread::getResult(), up to the wait inside m_future.get().  get()
\* on a future without shared state is undefined: the library throws
\* future_error(no_state), or the process dies.
GetResultCall(h, o) ==
    /\ OwnerFree
    /\ obj[h].st = "alive"
    /\ IF obj[h].m_future # NoState
       THEN /\ o = "wait"
            /\ ownerPc' = [st |-> "getResult", h |-> h, src |-> 0, ok |-> TRUE]
            /\ UNCHANGED <<ret, crashed>>
       ELSE /\ o \in UBOutcomes
            /\ ret' = Ret("getResult", h, IF o = "crash" THEN "crash" ELSE "thrown", IF o = "crash" THEN "none" ELSE "future_error")
            /\ crashed' = (o = "crash")
            /\ UNCHANGED ownerPc
    /\ UNCHANGED <<heapVars, propVars, legacyVars, platform, obj, life, fresh, moved, thr, chan>>

\* A get() that keeps the shared state: the amended C10 does not hold of it.
FutureAfterGetKeeping(c) == c

\* What is left of m_future once get() has returned: get() releases the
\* shared state.
FutureAfterGet(c) == NoState

\* A get() whose wait never ends: C12 does not hold of it.
FutureReadyNever(c) == FALSE

\* The wait inside std::future::get(): it ends when the shared state holds a
\* value or an exception.
FutureReady(c) == chan[c] # Empty

\* m_future.get() returns once the shared state is ready.
GetResultReturn ==
    /\ ~crashed
    /\ UNCHANGED nOps
    /\ ownerPc.st = "getResult"
    /\ LET h == ownerPc.h
           c == obj[h].m_future IN
       /\ FutureReady(c)
       /\ ret' = Ret("getResult", h, FutureGet(chan[c]).kind, FutureGet(chan[c]).x)
       /\ obj' = [obj EXCEPT ![h].m_future = FutureAfterGet(c)]
    /\ ownerPc' = Idle
    /\ UNCHANGED <<heapVars, propVars, legacyVars, platform, life, fresh, moved, thr, chan, crashed>>

\* A move that leaves the target's m_handle as it was: the amended C9 does
\* not hold of it.
MovedIntoKeepingHandle(h, o) ==
    [obj[h] EXCEPT !.st = "alive", !.m_promise = obj[o].m_promise,
                   !.m_future = obj[o].m_future]

\* The members of handle h once it has taken those of o: m_handle is copied,
\* m_func, m_promise and m_future are moved; no other member is touched.
MovedInto(h, o) ==
    [obj[h] EXCEPT !.st = "alive", !.m_handle = obj[o].m_handle,
                   !.m_promise = obj[o].m_promise, !.m_future = obj[o].m_future]

\* A move that does not reset the source's m_handle: C5 does not hold of it.
MovedFromKeepingHandle(o) ==
    [obj[o] EXCEPT !.m_promise = NoState, !.m_future = NoState]

\* A move that copies: the source keeps every member.  C26 does not hold of
\* it.
MovedFromKeepingAll(o) == obj[o]

\* The members of a handle after another one took them: m_handle is reset, a
\* moved-from shared_ptr is null, a moved-from future has no shared state.
MovedFrom(o) ==
    [obj[o] EXCEPT !.m_handle = NoThread, !.m_promise = NoState, !.m_future = NoState]

\* The lifecycle state the target of a move adopts.
Adopted(o) == IF life[o] = "Running" THEN "Running" ELSE "Idle"

\* thread::thread(thread&& other)
MoveCtor(h, o) ==
    /\ OwnerFree
    /\ Free(h)
    /\ obj[o].st = "alive"
    /\ obj' = [obj EXCEPT ![h] = MovedInto(h, o), ![o] = MovedFrom(o)]
    /\ life' = [life EXCEPT ![h] = Adopted(o), ![o] = "Idle"]
    /\ fresh' = [fresh EXCEPT ![h] = FALSE, ![o] = FALSE]
    /\ moved' = [moved EXCEPT ![h] = TRUE, ![o] = TRUE]
    /\ ret' = NoRet
    /\ UNCHANGED <<heapVars, propVars, legacyVars, platform, thr, chan, ownerPc, crashed>>

\* thread& thread::operator=(thread&& other), from `m_handle = other.m_handle`.
AssignMembers(h, o) ==
    /\ obj' = [obj EXCEPT ![h] = MovedInto(h, o), ![o] = MovedFrom(o)]
    /\ life' = [life EXCEPT ![h] = Adopted(o), ![o] = "Idle"]
    /\ fresh' = [fresh EXCEPT ![h] = FALSE, ![o] = FALSE]
    /\ moved' = [moved EXCEPT ![h] = TRUE, ![o] = TRUE]

\* thread& thread::operator=(thread&& other), up to the join of a joinable
\* target.  Self-assignment does nothing.
MoveAssignCall(h, o) ==
    /\ OwnerFree
    /\ obj[h].st = "alive"
    /\ obj[o].st = "alive"
    /\ IF h = o
       THEN /\ ret' = NoRet
            /\ UNCHANGED <<obj, life, fresh, moved, ownerPc>>
       ELSE IF joinable(h)
       THEN /\ ownerPc' = [st |-> "assign", h |-> h, src |-> o, ok |-> TRUE]
            /\ UNCHANGED <<obj, life, fresh, moved, ret>>
       ELSE /\ AssignMembers(h, o)
            /\ ret' = NoRet
            /\ UNCHANGED ownerPc
    /\ UNCHANGED <<heapVars, propVars, legacyVars, platform, thr, chan, crashed>>

\* thread& thread::operator=(thread&& other): join() of the target's prior
\* thread returns, then the members are taken.
MoveAssignReturn ==
    /\ ~crashed
    /\ UNCHANGED nOps
    /\ ownerPc.st = "assign"
    /\ LET h == ownerPc.h
           o == ownerPc.src
           t == obj[h].m_handle IN
       /\ NativeJoinDone(t)
       /\ thr' = [thr EXCEPT ![t].os = "joined"]
       /\ AssignMembers(h, o)
       /\ ret' = NoRet
    /\ ownerPc' = Idle
    /\ UNCHANGED <<heapVars, propVars, legacyVars, platform, chan, crashed>>

\* The end of the lifetime of handle h.  The class declares no destructor:
\* the members are destroyed, the native thread is neither joined nor
\* detached, and a worker still running keeps the `this` it captured.  What
\* the worker then reaches through it is no member any more.
Destroy(h) ==
    /\ OwnerFree
    /\ obj[h].st = "alive"
    /\ obj' = [obj EXCEPT ![h] = [Unborn EXCEPT !.st = "destroyed"]]
    /\ life' = [life EXCEPT ![h] = "Destroyed"]
    /\ ret' = NoRet
    /\ UNCHANGED <<heapVars, propVars, legacyVars, platform, fresh, moved, thr, chan, ownerPc, crashed>>

-----------------------------------------------------------------------------
(* The attribute side of thread(const Properties&, ...) and of Init *)

\* The longest affinity vector and the largest machine.
MaxCores == 2

\* Every vector<bool> of at most n entries.
BoolSeqs(n) == UNION {[1..k -> BOOLEAN] : k \in 0..n}

\* The Properties a caller passes: default or concrete priority, default or
\* concrete policy, any affinity vector.
PropsAll ==
    [priority : {DEFAULT_PRIORITY, 10}, policy : {DEFAULT_POLICY, 1},
     affinity : BoolSeqs(MaxCores)]

\* The cores an affinity vector flags: entry i of the vector is core i.
Flagged(aff) == {i - 1 : i \in {j \in DOMAIN aff : aff[j]}}

\* The attribute argument of pthread_create in the properties constructor.
CreateAttrArg == "nullptr"

\* What pthread_create gives the new thread to run with: the attributes of
\* the descriptor it is handed, the defaults when it is handed none.
CreatedWith(arg, attr, n) ==
    IF arg = "nullptr"
    THEN [st |-> "live", policy |-> 0, priority |-> 0, affinity |-> AllCores(n)]
    ELSE [st |-> "live", policy |-> attr.policy, priority |-> attr.priority,
          affinity |-> attr.affinity]

\* A native call the operating system refuses whatever the privileges:
\* SetThreadAffinityMask with a mask that is zero or names a core the machine
\* has not.  (pthread_attr_setaffinity_np stores the set unchecked.)
OsRefuses(c, p, n) ==
    /\ c = "SetThreadAffinityMask"
    /\ Flagged(p.affinity) = {} \/ ~(Flagged(p.affinity) \subseteq AllCores(n))

\* m_attr after the accepted native call c.
AttrAfter(c, p, attr, n) ==
    CASE c = "pthread_attr_init" -> DefaultAttr(n)
      [] c = "pthread_attr_setschedpolicy" -> [attr EXCEPT !.policy = p.policy]
      [] c = "pthread_attr_setschedparam" -> [attr EXCEPT !.priority = p.priority]
      [] c = "pthread_attr_setaffinity_np" ->
             [attr EXCEPT !.affinity = Flagged(p.affinity)]
      [] c = "pthread_attr_setinheritsched" -> [attr EXCEPT !.explicit = TRUE]
      [] OTHER -> attr

\* The native thread after the native call c, accepted or not.
NativeAfter(c, accepted, p, attr, nat, n) ==
    CASE c = "pthread_create" /\ accepted -> CreatedWith(CreateAttrArg, attr, n)
      [] c = "CreateThread" /\ accepted ->
             [st |-> "live", policy |-> 0, priority |-> 0, affinity |-> AllCores(n)]
      [] c = "SetThreadPriority" /\ accepted -> [nat EXCEPT !.priority = p.priority]
      [] c = "SetThreadAffinityMask" /\ accepted ->
             [nat EXCEPT !.affinity = Flagged(p.affinity)]
      [] OTHER -> nat

\* The native calls the constructor has made so far.
CallsMade == SubSeq(CtorPropsCalls(platform, props), 1, ctorPc.i)

\* The next native call of thread::thread(const Properties&, ...): the
\* operating system accepts it or refuses it.  A refused call whose result
\* the code tests ends the constructor with an exception; on Windows the
\* catch block first releases and joins the thread it created.
CtorPropsStep(accepted) ==
    /\ ctorPc.st = "running"
    /\ LET c == CtorPropsCalls(platform, props)[ctorPc.i + 1]
           last == ctorPc.i + 1 = Len(CtorPropsCalls(platform, props)) IN
       /\ OsRefuses(c, props, ncores) => ~accepted
       /\ IF ~accepted /\ c \in Checked
          THEN /\ ctorPc' = [st |-> "thrown", i |-> ctorPc.i + 1, err |-> c]
               /\ native' = IF native.st = "live"
                            THEN [native EXCEPT !.st = "joined"] ELSE native
               /\ UNCHANGED m_attr
          ELSE /\ ctorPc' = [st |-> IF last THEN "done" ELSE "running",
                             i |-> ctorPc.i + 1, err |-> "none"]
               /\ m_attr' = IF accepted
                            THEN AttrAfter(c, props, m_attr, ncores) ELSE m_attr
               /\ native' = NativeAfter(c, accepted, props, m_attr, native, ncores)
    /\ UNCHANGED <<heapVars, platform, obj, life, fresh, moved, thr, chan, ownerPc, ret, nOps,
                   crashed, props, ncores, legacy, legacyVars>>

\* OSCompatibleThread::SetCPUcores (Linux): the status it returns when the
\* native call `fail` is the one refused.
SetCPUcores(cores, fail) ==
    IF CoresCnt(cores) = 0 THEN "FAILED_NO_CPU_CORES_FLAGGED"
    ELSE IF fail = "pthread_attr_setaffinity_np" THEN "FAILED_SET_CPU_CORES"
    ELSE "SUCCESS"

\* The native calls OSCompatibleThread::Init (Linux) makes when none fails.
InitCalls(cores) ==
    <<"pthread_attr_init", "pthread_attr_setinheritsched",
      "pthread_attr_setschedpolicy", "pthread_attr_setschedparam">>
    \o (IF CoresCnt(cores) = 0 THEN << >>
        ELSE <<"pthread_attr_setaffinity_np", "pthread_create">>)

\* The status OSCompatibleThread::Init (Linux) returns on an object that is
\* not initialized.
InitStatus(cores, fail) ==
    CASE fail = "pthread_attr_init" -> "FAILED_INITIALIZE_THREAD"
      [] fail = "pthread_attr_setinheritsched" -> "FAILED_SET_INHERIT_SCHED"
      [] fail = "pthread_attr_setschedpolicy" -> "FAILED_SET_POLICY"
      [] fail = "pthread_attr_setschedparam" -> "FAILED_SET_PRIORITY"
      [] SetCPUcores(cores, fail) # "SUCCESS" -> "FAILED_SET_CPU_CORES"
      [] fail = "pthread_create" -> "FAILED_INITIALIZE_THREAD"
      [] OTHER -> "SUCCESS"

\* OSCompatibleThread::Init (Linux) with the priority, policy and cores of
\* props; `fail` is the native call the operating system refuses, if any.
OSCompatibleThread_Init(fail) ==
    /\ platform = "posix"
    /\ legacy.status = "none"
    /\ legacy' =
         IF legacy.m_isInitialized
         THEN [legacy EXCEPT !.status = "FAILED_THREAD_ALREADY_INITIALIZED"]
         ELSE [m_isInitialized |-> InitStatus(props.affinity, fail) = "SUCCESS",
               spawned |-> InitStatus(props.affinity, fail) = "SUCCESS",
               status |-> InitStatus(props.affinity, fail)]
    /\ UNCHANGED <<heapVars, platform, obj, life, fresh, moved, thr, chan, ownerPc, ret, nOps,
                   crashed, props, ncores, ctorPc, m_attr, native, legacyVars>>

-----------------------------------------------------------------------------
(* The class OSCompatibleThread *)

\* The value the thread function of native thread t returns.
LValue(t) == [from |-> t]

\* The errno of a pthread_create that fails: no privilege for the scheduling
\* attributes, or no resources.
Errnos == {"EPERM", "EAGAIN"}

\* The cores vectors the caller passes to Init: empty, none flagged, one
\* flagged, all flagged.
CoresAll == {<< >>, <<FALSE, FALSE>>, <<TRUE, FALSE>>, <<TRUE, TRUE>>}

LRet(op, o, t, status, errno, arg) ==
    [op |-> op, o |-> o, t |-> t, status |-> status, errno |-> errno,
     arg |-> arg, before |-> lobj[o],
     live |-> {u \in LThreads : lthr[u].by = o /\ lthr[u].os = "joinable"}]

\* The next native thread the operating system hands out.
FreshThread(t) ==
    /\ lthr[t].pc = "none"
    /\ \A u \in LThreads : u < t => lthr[u].pc # "none"

\* A thread just spawned for object o: it runs at once.
Spawned(o) == [pc |-> "running", os |-> "joinable", by |-> o]

\* The status Init (Linux) returns when pthread_create fails with errno err:
\* the errno selects the text of the message, the status is the same.
CreateFailureStatus(err) == "FAILED_INITIALIZE_THREAD"

\* The status Init (Linux) returns on an object that is not initialized when
\* the native call `fail` is refused, pthread_create with errno err.
InitStatusErrno(cores, fail, err) ==
    IF fail = "pthread_create" /\ InitStatus(cores, fail) = "FAILED_INITIALIZE_THREAD"
    THEN CreateFailureStatus(err)
    ELSE InitStatus(cores, fail)

\* OSCompatibleThread::Init, the Linux branch, on object o.
Init_Linux(o, cores, fail, err) ==
    /\ platform = "posix"
    /\ lpc = LIdle
    /\ IF lobj[o].m_isInitialized
       THEN /\ lret' = LRet("Init", o, 0, "FAILED_THREAD_ALREADY_INITIALIZED",
                            "none", "null")
            /\ UNCHANGED <<lobj, lthr>>
       ELSE IF InitStatusErrno(cores, fail, err) = "SUCCESS"
       THEN \E t \in LThreads :
                /\ FreshThread(t)
                /\ lthr' = [lthr EXCEPT ![t] = Spawned(o)]
                /\ lobj' = [lobj EXCEPT ![o] = [m_isInitialized |-> TRUE,
                                                m_thread |-> t]]
                /\ lret' = LRet("Init", o, t, "SUCCESS", "none", "null")
       ELSE /\ lret' = LRet("Init", o, 0, InitStatusErrno(cores, fail, err),
                            IF fail = "pthread_create" THEN err ELSE "none",
                            "null")
            /\ UNCHANGED <<lobj, lthr>>
    /\ UNCHANGED <<heapVars, platform, obj, life, fresh, moved, thr, chan, ownerPc, ret, nOps,
                   crashed, propVars, lpc, store>>

\* The calls of OSCompatibleThread::Init, the Windows branch, in the order it
\* makes them.  m_isInitialized is not tested before them.
InitCallsWin == <<"CreateThread", "SetPriority", "policy", "SetCPUcores">>

\* The status Init (Windows) returns when the call `fail` reports a failure.
InitStatusWin(fail) ==
    CASE fail = "CreateThread" -> "ERR"
      [] fail = "SetPriority" -> "FAILED_SET_PRIORITY"
      [] fail = "policy" -> "FAILED_SET_POLICY"
      [] fail = "SetCPUcores" -> "FAILED_SET_CPU_CORES"
      [] OTHER -> "SUCCESS"

\* OSCompatibleThread::Init, the Windows branch, on object o: CreateThread
\* first, with a thread that runs at once, then the property calls;
\* m_isInitialized is set when all of them succeeded.
Init_Win32(o, fail) ==
    /\ platform = "win32"
    /\ lpc = LIdle
    /\ IF fail = "CreateThread"
       THEN /\ lobj' = [lobj EXCEPT ![o].m_thread = 0]
            /\ lret' = LRet("Init", o, 0, InitStatusWin(fail), "none", "null")
            /\ UNCHANGED lthr
       ELSE \E t \in LThreads :
                /\ FreshThread(t)
                /\ lthr' = [lthr EXCEPT ![t] = Spawned(o)]
                /\ lobj' = [lobj EXCEPT ![o] =
                               [m_isInitialized |->
                                    lobj[o].m_isInitialized \/ fail = "none",
                                m_thread |-> t]]
                /\ lret' = LRet("Init", o, t, InitStatusWin(fail), "none", "null")
    /\ UNCHANGED <<heapVars, platform, obj, life, fresh, moved, thr, chan, ownerPc, ret, nOps,
                   crashed, propVars, lpc, store>>

\* The thread function of native thread t returns.
ThreadFunc(t) ==
    /\ lthr[t].pc = "running"
    /\ lthr' = [lthr EXCEPT ![t].pc = "returned"]
    /\ UNCHANGED <<heapVars, platform, obj, life, fresh, moved, thr, chan, ownerPc, ret, nOps,
                   crashed, propVars, lobj, lpc, lret, store>>

\* What pthread_join does with the thread value t: it waits for a thread
\* that is joinable, anything else is undefined.
PthreadJoin(t) ==
    IF t # 0 /\ lthr[t].os = "joinable" THEN {"wait"} ELSE UBOutcomes

\* OSCompatibleThread::Join(returnValue), up to pthread_join; arg tells
\* whether returnValue is null or the address of storage of the caller.
Join_Call(o, arg, out) ==
    /\ platform = "posix"
    /\ lpc = LIdle
    /\ store' = IF arg = "storage" THEN Unset ELSE store
    /\ IF ~lobj[o].m_isInitialized
       THEN /\ out = "wait"
            /\ lret' = LRet("Join", o, 0, "FAILED_THREAD_NOT_INITIALIZED",
                            "none", arg)
            /\ UNCHANGED lpc
       ELSE /\ out \in PthreadJoin(lobj[o].m_thread)
            /\ CASE out = "wait" ->
                        /\ lpc' = [st |-> "pthread_join", o |-> o, arg |-> arg]
                        /\ lret' = LRet("pending", o, lobj[o].m_thread, "none",
                                        "none", arg)
                 [] out = "error" ->
                        /\ lret' = LRet("Join", o, lobj[o].m_thread,
                                        "FAILED_JOIN_THREAD", "none", arg)
                        /\ UNCHANGED lpc
                 [] out = "crash" ->
                        /\ lret' = LRet("Join", o, lobj[o].m_thread, "crash",
                                        "none", arg)
                        /\ lpc' = [st |-> "crashed", o |-> o, arg |-> arg]
    /\ UNCHANGED <<heapVars, platform, obj, life, fresh, moved, thr, chan, ownerPc, ret, nOps,
                   crashed, propVars, lobj, lthr>>

\* A pthread_join that does not wait for the thread function: C29 does not
\* hold of it.
PthreadJoinReadyAtOnce(t) == lthr[t].pc \in {"running", "returned"}

\* pthread_join returns once the thread function has returned.
PthreadJoinReady(t) == lthr[t].pc = "returned"

\* Where pthread_join puts the value the thread function returned: Join
\* hands it &returnValue, the address of its own parameter, when returnValue
\* is not null.
JoinStores(arg) == IF arg = "null" THEN "nowhere" ELSE "returnValue"

\* A FreeNDestroy that leaves m_isInitialized set: C28 does not hold of it.
FreeNDestroyKeepingInitialized(o) == [lobj[o] EXCEPT !.m_thread = 0]

\* A FreeNDestroy that returns without resetting the members: C37 does not
\* hold of it.
FreeNDestroyLeavingMembers(o) == lobj[o]

\* OSCompatibleThread::FreeNDestroy: the members of o once
\* pthread_attr_destroy, which succeeds on attributes that are initialized,
\* has returned.
FreeNDestroy(o) == [m_isInitialized |-> FALSE, m_thread |-> 0]

\* OSCompatibleThread::Join(returnValue), from the return of pthread_join:
\* FreeNDestroy, and its status is the status of Join.
Join_Return ==
    /\ lpc.st = "pthread_join"
    /\ LET o == lpc.o
           t == lobj[o].m_thread IN
       /\ PthreadJoinReady(t)
       /\ lthr' = [lthr EXCEPT ![t].os = "joined"]
       /\ store' = IF JoinStores(lpc.arg) = "storage" THEN LValue(t) ELSE store
       /\ lobj' = [lobj EXCEPT ![o] = FreeNDestroy(o)]
       /\ lret' = [lret EXCEPT !.op = "Join", !.status = "SUCCESS"]
    /\ lpc' = LIdle
    /\ UNCHANGED <<heapVars, platform, obj, life, fresh, moved, thr, chan, ownerPc, ret, nOps,
                   crashed, propVars>>

-----------------------------------------------------------------------------
(* A native join that fails *)

\* A join() that resets m_handle although the native join failed: C35 does
\* not hold of it.
AfterFailedJoinResetting(h) == [obj[h] EXCEPT !.m_handle = NoThread]

\* The members of handle h after the native join failed: join() throws
\* before it touches m_handle.
AfterFailedJoin(h) == obj[h]

\* void thread::join() on a joinable handle when pthread_join returns an
\* error or WaitForSingleObject returns WAIT_FAILED: the exception is thrown
\* at once.
JoinNativeFails(h) ==
    /\ OwnerFree
    /\ obj[h].st = "alive"
    /\ joinable(h)
    /\ obj' = [obj EXCEPT ![h] = AfterFailedJoin(h)]
    /\ ret' = Ret("join", h, "thrown", "runtime_error")
    /\ UNCHANGED <<heapVars, propVars, legacyVars, platform, life, fresh, moved, thr, chan, ownerPc, crashed>>

\* OSCompatibleThread::Join on an initialized object when pthread_join
\* returns an error: FAILED_JOIN_THREAD is returned before FreeNDestroy.
Join_NativeFails(o, arg) ==
    /\ platform = "posix"
    /\ lpc = LIdle
    /\ lobj[o].m_isInitialized
    /\ store' = IF arg = "storage" THEN Unset ELSE store
    /\ lret' = LRet("Join", o, lobj[o].m_thread, "FAILED_JOIN_THREAD", "none", arg)
    /\ UNCHANGED <<heapVars, platform, obj, life, fresh, moved, thr, chan, ownerPc, ret, nOps,
                   crashed, propVars, lobj, lthr, lpc>>

-----------------------------------------------------------------------------
(* Specifications *)

\* The handle lifecycle and the result channel: every operation of the class
\* on both platforms, the properties constructor on its POSIX branch.
Next ==
    \/ \E h \in Handles : DefaultCtor(h)
    \/ \E h \in Handles, s \in BOOLEAN : \E f \in Funcs(h) : Ctor(h, f, s)
    \/ \E h \in Handles, p \in PropsSet :
           \E f \in Funcs(h), fail \in Range(CtorPropsCalls("posix", p)) \cup {"none"} :
               CtorPropsPosix(h, f, p, fail)
    \/ \E h, o \in Handles : MoveCtor(h, o)
    \/ \E h, o \in Handles : MoveAssignCall(h, o)
    \/ MoveAssignReturn
    \/ \E h \in Handles, o \in {"wait", "error", "crash"} : JoinCall(h, o)
    \/ JoinReturn
    \/ \E h \in Handles, o \in {"ok", "error", "crash"} : Detach(h, o)
    \/ \E h \in Handles, o \in {"wait", "error", "crash"} : GetResultCall(h, o)
    \/ GetResultReturn
    \/ \E t \in Handles, ub \in UBOutcomes : Worker(t, ub)

Spec == Init /\ [][Next]_vars

\* The same with the Windows branch of the properties constructor and its
\* barrier.
NextWin ==
    \/ Next
    \/ \E h \in Handles, p \in PropsSet :
           \E f \in Funcs(h), fail \in Range(CtorPropsCalls("win32", p)) \cup {"none"} :
               CtorPropsWin(h, f, p, fail)
    \/ WinSetProperties
    \/ WinRelease
    \/ WinSetInitialized
    \/ WinNotify
    \/ WinCtorJoinReturn
    \/ \E t \in Handles : BarrierCheck(t)
    \/ \E t \in Handles : BarrierWait(t)
    \/ \E t \in Handles : BarrierSpuriousWake(t)

SpecWin == Init /\ [][NextWin]_vars

\* The lifecycle with handles that go out of scope.
NextLife ==
    \/ Next
    \/ \E h \in Handles : Destroy(h)

SpecLife == Init /\ [][NextLife]_vars

\* One construction with Properties, native call by native call, and one
\* OSCompatibleThread::Init, for every Properties and machine size.
InitProps ==
    /\ platform \in Platforms
    /\ obj = [h \in Handles |-> Unborn]
    /\ life = [h \in Handles |-> "Unborn"]
    /\ fresh = [h \in Handles |-> FALSE]
    /\ thr = [t \in Handles |-> NoWorker]
    /\ chan = [c \in Handles |-> Empty]
    /\ ownerPc = Idle
    /\ ret = NoRet
    /\ nOps = 0
    /\ crashed = FALSE
    /\ props \in PropsAll
    /\ ncores \in 1..MaxCores
    /\ ctorPc = [st |-> "running", i |-> 0, err |-> "none"]
    /\ m_attr = NoAttr
    /\ native = NoNative
    /\ legacy = NoLegacy
    /\ lobj = [o \in LObjs |-> NewLegacy]
    /\ lthr = [t \in LThreads |-> NoLThread]
    /\ lpc = LIdle
    /\ lret = NoLRet
    /\ store = Unset
    /\ closure = [t \in Handles |-> "none"]
    /\ orphans = 0
    /\ moved = [h \in Handles |-> FALSE]

NextProps ==
    \/ \E accepted \in BOOLEAN : CtorPropsStep(accepted)
    \/ \E fail \in Range(InitCalls(props.affinity)) \cup {"none"} :
           OSCompatibleThread_Init(fail)

SpecProps == InitProps /\ [][NextProps]_vars

\* The class OSCompatibleThread: any number of Init and Join on its objects,
\* on either platform branch, with the threads they spawn.
NextLegacy ==
    \/ \E o \in LObjs, cores \in CoresAll :
           \E fail \in Range(InitCalls(cores)) \cup {"none"} :
               \E err \in IF fail = "pthread_create" THEN Errnos ELSE {"none"} :
                   Init_Linux(o, cores, fail, err)
    \/ \E o \in LObjs, fail \in Range(InitCallsWin) \cup {"none"} :
           Init_Win32(o, fail)
    \/ \E t \in LThreads : ThreadFunc(t)
    \/ \E o \in LObjs, arg \in {"null", "storage"}, out \in {"wait"} \cup UBOutcomes :
           Join_Call(o, arg, out)
    \/ Join_Return

SpecLegacy == Init /\ [][NextLegacy]_vars

\* The Windows branch of the properties constructor on its own: the
\* constructions, the barrier, and the joins and getResults that wait for
\* the workers.
InitBarrier ==
    /\ Init
    /\ platform = "win32"

NextBarrier ==
    \/ \E h \in Handles, p \in PropsSet :
           \E f \in Funcs(h), fail \in Range(CtorPropsCalls("win32", p)) \cup {"none"} :
               CtorPropsWin(h, f, p, fail)
    \/ WinSetProperties
    \/ WinRelease
    \/ WinSetInitialized
    \/ WinNotify
    \/ WinCtorJoinReturn
    \/ \E t \in Handles : BarrierCheck(t)
    \/ \E t \in Handles : BarrierWait(t)
    \/ \E t \in Handles : BarrierSpuriousWake(t)
    \/ \E t \in Handles : Worker(t, "error")
    \/ \E h \in Handles : JoinCall(h, "wait")
    \/ JoinReturn
    \/ \E h \in Handles : GetResultCall(h, "wait")
    \/ GetResultReturn

SpecBarrier == InitBarrier /\ [][NextBarrier]_vars

\* The same under a fair scheduler: the owner goes on with the operation it
\* is in, every thread that can take a step takes it, a blocked call
\* returns once it can.  A wait is not bound to end without a notification.
FairBarrier ==
    /\ SpecBarrier
    /\ WF_vars(WinSetProperties)
    /\ WF_vars(WinRelease)
    /\ WF_vars(WinSetInitialized)
    /\ WF_vars(WinNotify)
    /\ WF_vars(WinCtorJoinReturn)
    /\ WF_vars(JoinReturn)
    /\ WF_vars(GetResultReturn)
    /\ \A t \in Handles :
           /\ WF_vars(BarrierCheck(t))
           /\ WF_vars(BarrierWait(t))
           /\ WF_vars(Worker(t, "error"))

\* A program that uses one of the two classes, on an operating system
\* whose native join can fail: construction, join, detach and the workers
\* of class thread, or Init and Join of class OSCompatibleThread.
NextJoinFail ==
    \/ /\ lret = NoLRet
       /\ \/ \E h \in Handles : DefaultCtor(h)
          \/ \E h \in Handles, sp \in BOOLEAN : \E f \in Funcs(h) : Ctor(h, f, sp)
          \/ \E h \in Handles, o \in {"wait", "error", "crash"} : JoinCall(h, o)
          \/ \E h \in Handles : JoinNativeFails(h)
          \/ JoinReturn
          \/ \E h \in Handles, o \in {"ok", "error", "crash"} : Detach(h, o)
          \/ \E t \in Handles : Worker(t, "error")
    \/ /\ nOps = 0
       /\ \/ NextLegacy
          \/ \E o \in LObjs, arg \in {"null", "storage"} : Join_NativeFails(o, arg)

SpecJoinFail == Init /\ [][NextJoinFail]_vars

-----------------------------------------------------------------------------
(* Properties *)

\* The step in which the blocked operation op of the owner on handle h returns.
Returns(op, h) ==
    /\ ownerPc.st = op
    /\ ownerPc.h = h
    /\ ownerPc' = Idle

\* The step in which the owner calls getResult() on handle h whose future has
\* no shared state.
GetsInvalid(h) ==
    /\ ownerPc = Idle
    /\ obj[h].st = "alive"
    /\ obj[h].m_future = NoState
    /\ nOps' = nOps + 1
    /\ ownerPc' = Idle
    /\ ret'.op = "getResult"
    /\ ret'.h = h

\* C1: a handle built with a callable that returns v (by either callable
\* constructor) and never moved: whenever getResult() returns to the owner it
\* returns exactly v, and a getResult() that waits while the worker has
\* terminated can return.
C1_GetResultReturnsValue ==
    /\ [](\A h \in Handles :
            (/\ fresh[h]
             /\ thr[h].func.kind = "returns"
             /\ ownerPc.st = "getResult"
             /\ ownerPc.h = h
             /\ thr[h].pc = "terminated"
             /\ ~crashed) => ENABLED GetResultReturn)
    /\ [][\A h \in Handles :
            (Returns("getResult", h) /\ fresh[h] /\ thr[h].func.kind = "returns")
                => ret' = Ret("getResult", h, "returned", thr[h].func.x)]_vars

C1_Witness ==
    \E h \in Handles :
        /\ fresh[h]
        /\ thr[h].func.kind = "returns"
        /\ ret = Ret("getResult", h, "returned", Value(h))

\* C2: a handle whose callable raises E and that was never moved: whenever
\* getResult() comes back to the owner it throws exactly E, never a value and
\* never another failure.
C2_GetResultRethrows ==
    [][\A h \in Handles :
          (Returns("getResult", h) /\ fresh[h] /\ thr[h].func.kind = "raises")
              => ret' = Ret("getResult", h, "thrown", thr[h].func.x)]_vars

C2_Witness ==
    \E h \in Handles :
        /\ fresh[h]
        /\ thr[h].func.kind = "raises"
        /\ ret = Ret("getResult", h, "thrown", Failure(h))

\* C3: a handle that took part in a move: once its worker has terminated, the
\* outcome of the callable is in the shared state the worker's constructor
\* created, the one whose future the moves hand on to the target.
C3_MovedWorkerWrites ==
    \A t \in Handles :
        (~fresh[t] /\ thr[t].pc = "terminated")
            => chan[t] = Thunk(thr[t].func)

\* C4: join() on a Running handle returns only when the worker has
\* terminated, and a join() that waits for a terminated worker can return.
C4_JoinWaitsForWorker ==
    /\ [](\A h \in Handles :
            (/\ ownerPc.st = "join"
             /\ ownerPc.h = h
             /\ thr[obj[h].m_handle].pc = "terminated"
             /\ ~crashed) => ENABLED JoinReturn)
    /\ [][\A h \in Handles :
            Returns("join", h)
                => /\ life[h] = "Running"
                   /\ thr[obj[h].m_handle].pc = "terminated"
                   /\ ret' = NoRet]_vars

C4_Witness ==
    \E h \in Handles :
        /\ life[h] = "Joined"
        /\ thr[h].os = "joined"
        /\ thr[h].pc = "terminated"
        /\ ownerPc = Idle

\* C5: joinable() is true of a handle exactly when the handle is Running: it
\* is false of a default-constructed, joined, detached or moved-from handle.
C5_JoinableIffRunning ==
    \A h \in Handles :
        obj[h].st = "alive" => (joinable(h) <=> life[h] = "Running")

C5_Witness ==
    \E h, g \in Handles :
        /\ life[h] = "Running"
        /\ joinable(h)
        /\ life[g] \in {"Joined", "Detached"}
        /\ ~joinable(g)

\* C6: join() on a handle that is not Running comes back with a lifecycle
\* error, NotInitialized or AlreadyFinished: the process survives it and the
\* failure is no other one.
C6_JoinMisuseFails ==
    ret.op = "join"
        => /\ ret.kind = "thrown"
           /\ ret.x \in {"NotInitialized", "AlreadyFinished"}

\* C7: detach() on a handle that is not Running comes back with the lifecycle
\* error NotInitialized, and the handle stays non-joinable.
C7_DetachMisuseFails ==
    ret.op = "detach"
        => /\ ret.kind = "thrown"
           /\ ret.x = "NotInitialized"
           /\ ~joinable(ret.h)

\* C8: when a move-assignment onto a Running target returns, the target's
\* prior worker has terminated, the target holds the thread of the source,
\* and the outcome of that thread is, or will be written, in the shared state
\* whose future the target holds.
C8_AssignOntoRunning ==
    [][\A h \in Handles :
          Returns("assign", h)
              => LET t == obj[ownerPc.src].m_handle IN
                 /\ thr[obj[h].m_handle].pc = "terminated"
                 /\ obj'[h].m_handle = t
                 /\ (t # NoThread =>
                        IF thr[t].pc = "terminated"
                        THEN chan[obj'[h].m_future] = Thunk(thr[t].func)
                        ELSE obj'[ThisOf(t)].m_promise = obj'[h].m_future)]_vars

\* The step in which handle h takes the members of handle o: a move
\* construction, or a move-assignment that has got past the join of its target.
Moves(h, o) ==
    \/ MoveCtor(h, o)
    \/ MoveAssignCall(h, o) /\ ~(h # o /\ joinable(h))
    \/ Returns("assign", h) /\ ownerPc.src = o

\* What a move from o into h leaves: o is Idle and not joinable, h holds the
\* native thread o held, and h is Running exactly when o was.
MovePost(h, o) ==
    /\ obj'[o].m_handle = NoThread
    /\ life'[o] = "Idle"
    /\ obj'[h].m_handle = obj[o].m_handle
    /\ (obj'[h].m_handle # NoThread) <=> joinable(o)
    /\ (life'[h] = "Running") <=> (life[o] = "Running")

\* C9 as stated: after every move construction and every move-assignment the
\* source is Idle and the target is joinable exactly when the source was,
\* with the same native thread.
C9_MoveResetsSource ==
    [][\A h, o \in Handles : Moves(h, o) => MovePost(h, o)]_vars

\* C9, amended: the same for a source that is another handle than the target
\* (a move-assignment of a handle to itself changes nothing).
C9_MoveResetsOtherSource ==
    [][\A h, o \in Handles : (h # o /\ Moves(h, o)) => MovePost(h, o)]_vars

C9_Witness ==
    \E h, o \in Handles :
        /\ h # o
        /\ obj[h].st = "alive"
        /\ obj[h].m_handle = o
        /\ life[h] = "Running"
        /\ life[o] = "Idle"
        /\ ~joinable(o)

\* C10 as stated: every getResult() that comes back after the worker has
\* written hands back the outcome the worker wrote.
C10_GetResultRepeatable ==
    \A h \in Handles :
        (fresh[h] /\ ret.op = "getResult" /\ ret.h = h /\ chan[h] # Empty)
            => /\ ret.kind = FutureGet(chan[h]).kind
               /\ ret.x = FutureGet(chan[h]).x

\* C10, amended: a getResult() that returns the outcome leaves the handle
\* without a readable result, and a further getResult() on the handle throws
\* future_error or kills the process: it hands back no outcome.
C10_GetResultConsumes ==
    [][\A h \in Handles :
          /\ Returns("getResult", h)
                => /\ obj'[h].m_future = NoState
                   /\ ret'.kind = FutureGet(chan[obj[h].m_future]).kind
                   /\ ret'.x = FutureGet(chan[obj[h].m_future]).x
          /\ GetsInvalid(h)
                => \/ ret' = Ret("getResult", h, "thrown", "future_error")
                   \/ ret' = Ret("getResult", h, "crash", "none") /\ crashed']_vars

C10_Witness ==
    \E h \in Handles :
        /\ fresh[h]
        /\ chan[h] # Empty
        /\ obj[h].m_future = NoState
        /\ ret = Ret("getResult", h, "thrown", "future_error")

\* C11: the result channel of every worker is written exactly once, by that
\* worker, by the time the worker terminates: a terminated worker has left
\* its outcome in the channel its constructor created, and no channel holds
\* anything but the outcome of its own terminated worker.
C11_ChannelWrittenOnceByWorker ==
    \A c \in Handles :
        /\ thr[c].pc = "terminated" => chan[c] # Empty
        /\ chan[c] # Empty
              => thr[c].pc = "terminated" /\ chan[c] = Thunk(thr[c].func)

C14_ChannelOutlivesHandle ==
    \A t \in Handles :
        (/\ obj[t].st = "destroyed"
         /\ fresh[t]
         /\ thr[t].os = "detached"
         /\ thr[t].pc = "terminated") => chan[t] = Thunk(thr[t].func)

\* C15: a handle whose callable returns nothing and that was never moved:
\* the worker leaves an empty std::any in the channel and getResult() hands
\* it back as a value; the only failure a getResult() on the handle can
\* throw is the future_error of a repeated call.
C15_VoidYieldsEmptyAny ==
    \A h \in Handles :
        (fresh[h] /\ thr[h].func.kind = "void")
            => /\ thr[h].pc = "terminated"
                     => chan[h] = [kind |-> "value", x |-> EmptyAny]
               /\ obj[h].m_future = NoState => chan[h] # Empty
               /\ (ret.op = "getResult" /\ ret.h = h /\ ret.kind # "crash"
                     /\ ret.x # "future_error")
                     => ret = Ret("getResult", h, "returned", EmptyAny)

C15_Witness ==
    \E h \in Handles :
        /\ fresh[h]
        /\ thr[h].func.kind = "void"
        /\ ret = Ret("getResult", h, "returned", EmptyAny)

\* C16: the failure a callable raises reaches the owner through getResult()
\* only: no constructor, join() or detach() hands it back; a join() waiting
\* for a worker whose callable raised can return as for any other worker and
\* leaves the handle Joined with the failure in the channel; and the failure
\* does not leave the worker thread: the process is killed by a worker only
\* after a move.
C16_FailureOnlyThroughGetResult ==
    /\ \A h \in Handles :
          ret.x = Failure(h) => (ret.op = "getResult" /\ ret.kind = "thrown")
    /\ \A h \in Handles :
          (/\ ownerPc.st = "join"
           /\ ownerPc.h = h
           /\ thr[obj[h].m_handle].pc = "terminated"
           /\ thr[obj[h].m_handle].func.kind = "raises"
           /\ ~crashed) => ENABLED JoinReturn
    /\ \A h \in Handles :
          (fresh[h] /\ thr[h].func.kind = "raises" /\ thr[h].pc = "terminated")
              => chan[h] = [kind |-> "exception", x |-> Failure(h)]
    /\ (crashed /\ ret.kind # "crash")
          => \E t \in Handles : ~fresh[t] /\ thr[t].pc = "ready"

C16_Witness ==
    \E h \in Handles :
        /\ fresh[h]
        /\ life[h] = "Joined"
        /\ thr[h].func.kind = "raises"
        /\ chan[h] = [kind |-> "exception", x |-> Failure(h)]
        /\ ret = NoRet
        /\ ownerPc = Idle
        /\ ~crashed

\* C17: on POSIX, a construction that has succeeded with an affinity that
\* flags a non-empty set S of cores of the machine has spawned a thread that
\* runs with affinity exactly S.
C17_AffinityApplied ==
    (/\ platform = "posix"
     /\ ctorPc.st = "done"
     /\ Flagged(props.affinity) # {}
     /\ Flagged(props.affinity) \subseteq AllCores(ncores))
        => native.affinity = Flagged(props.affinity)

\* Among the native calls made so far, every call a precedes every call b.
Before(a, b) ==
    \A i, j \in DOMAIN CallsMade :
        (CallsMade[i] = a /\ CallsMade[j] = b) => i < j

\* On POSIX, once the thread is spawned every attribute the Properties ask
\* for has been applied to the descriptor, and each application precedes the
\* spawn.
AppliedBeforeSpawn ==
    /\ Before("pthread_attr_setschedparam", "pthread_create")
    /\ Before("pthread_attr_setschedpolicy", "pthread_create")
    /\ Before("pthread_attr_setaffinity_np", "pthread_create")
    /\ native.st = "live"
          => /\ props.priority # DEFAULT_PRIORITY
                   => m_attr.priority = props.priority
             /\ props.policy # DEFAULT_POLICY => m_attr.policy = props.policy
             /\ "pthread_attr_setaffinity_np" \in Range(CallsMade)
                   => m_attr.affinity = Flagged(props.affinity)

\* C18 as stated: on POSIX the priority is applied before the policy, the
\* policy before the affinity, and all of them before the spawn.
C18_PriorityPolicyAffinity ==
    platform = "posix"
        => /\ Before("pthread_attr_setschedparam", "pthread_attr_setschedpolicy")
           /\ Before("pthread_attr_setschedpolicy", "pthread_attr_setaffinity_np")
           /\ AppliedBeforeSpawn

\* C18, amended: on POSIX the policy is applied before the priority, the
\* priority before the affinity, and all of them before the spawn.
C18_PolicyPriorityAffinity ==
    platform = "posix"
        => /\ Before("pthread_attr_setschedpolicy", "pthread_attr_setschedparam")
           /\ Before("pthread_attr_setschedparam", "pthread_attr_setaffinity_np")
           /\ Before("pthread_attr_setschedpolicy", "pthread_attr_setaffinity_np")
           /\ AppliedBeforeSpawn

C18_Witness ==
    /\ platform = "posix"
    /\ ctorPc.st = "done"
    /\ native.st = "live"
    /\ {"pthread_attr_setschedpolicy", "pthread_attr_setschedparam",
        "pthread_attr_setaffinity_np"} \subseteq Range(CallsMade)

\* An affinity that asks for no restriction: the empty vector, or one entry
\* per core of the machine with every entry set.
Unrestricting(aff) ==
    \/ aff = << >>
    \/ Len(aff) = ncores /\ \A i \in DOMAIN aff : aff[i]

\* C19: a construction whose affinity flags every core of the machine makes
\* the same native calls as the construction with the empty affinity: no
\* affinity call, nothing the operating system has to refuse, no affinity
\* failure, and a spawned thread that runs on every core.
C19_EmptyEqualsAllFlagged ==
    Unrestricting(props.affinity)
        => /\ CtorPropsCalls(platform, props)
                 = CtorPropsCalls(platform,
                                  [props EXCEPT !.affinity = DEFAULT_AFFINITY])
           /\ Range(CallsMade)
                 \cap {"pthread_attr_setaffinity_np", "SetThreadAffinityMask"} = {}
           /\ ctorPc.st = "running"
                 => ~OsRefuses(CtorPropsCalls(platform, props)[ctorPc.i + 1],
                               props, ncores)
           /\ native.st = "live" => native.affinity = AllCores(ncores)

C19_Witness ==
    /\ props.affinity # << >>
    /\ Unrestricting(props.affinity)
    /\ ctorPc.st = "done"
    /\ native.st = "live"
    /\ native.affinity = AllCores(ncores)

\* A non-empty affinity vector that flags no core.
NoneFlagged(aff) == aff # << >> /\ Flagged(aff) = {}

\* C20: with a non-empty affinity vector that flags no core, the constructor
\* spawns no thread and ends with the error NoCoresFlagged, and Init spawns
\* no thread and returns FAILED_NO_CPU_CORES_FLAGGED.
C20_NoCoresFlaggedError ==
    NoneFlagged(props.affinity)
        => /\ native.st = "none"
           /\ ctorPc.st # "done"
           /\ ctorPc.st = "thrown" => ctorPc.err = "NoCoresFlagged"
           /\ legacy.status # "none"
                 => /\ legacy.status = "FAILED_NO_CPU_CORES_FLAGGED"
                    /\ ~legacy.spawned

-----------------------------------------------------------------------------
\* C21: whenever the operating system is asked for a core set it rejects (a
\* flagged index beyond the cores of the machine), the construction fails
\* with an affinity error on both backends; it never completes with a thread
\* that runs unrestricted.
AffinityCalls == {"SetThreadAffinityMask", "pthread_attr_setaffinity_np"}

C21_RejectedCoreSetFails ==
    (/\ Range(CallsMade) \cap AffinityCalls # {}
     /\ ~(Flagged(props.affinity) \subseteq AllCores(ncores)))
        => ctorPc.st # "done"

-----------------------------------------------------------------------------
\* C22: a construction with priority = DEFAULT_PRIORITY and policy =
\* DEFAULT_POLICY makes no native set-priority or set-policy call, so no call
\* of it can be refused for lack of privilege, and the thread it spawns has
\* the scheduling of a thread spawned without Properties.
SchedCalls == {"SetThreadPriority", "pthread_attr_setschedparam",
               "pthread_attr_setschedpolicy"}

C22_DefaultsMakeNoSchedCall ==
    (props.priority = DEFAULT_PRIORITY /\ props.policy = DEFAULT_POLICY)
        => /\ Range(CallsMade) \cap SchedCalls = {}
           /\ ctorPc.st = "thrown" => ctorPc.err \notin SchedCalls
           /\ ctorPc.st = "done" =>
                  /\ native.st = "live"
                  /\ native.policy = 0
                  /\ native.priority = 0

\* A construction with the default priority and policy has completed.
C22_Witness ==
    /\ props.priority = DEFAULT_PRIORITY
    /\ props.policy = DEFAULT_POLICY
    /\ ctorPc.st = "done"
    /\ native.st = "live"

-----------------------------------------------------------------------------
\* C25: no handle is joinable and detached at the same time, and no native
\* thread is both joined and detached: a joinable handle holds a thread that
\* no join and no detach has reaped, and the native join a blocked join() or
\* move-assignment waits in is on such a thread, so that each thread is
\* reaped at most once.
C25_NeverJoinableAndDetached ==
    /\ \A h \in Handles :
           joinable(h) => /\ life[h] # "Detached"
                          /\ thr[obj[h].m_handle].os = "joinable"
    /\ ownerPc.st \in {"join", "assign"} =>
           thr[obj[ownerPc.h].m_handle].os = "joinable"

\* A thread has been detached and another joined, each through its own
\* handle, after a move.
C25_Witness ==
    /\ \E t \in Handles : thr[t].os = "detached"
    /\ \E t \in Handles : thr[t].os = "joined"
    /\ \E h \in Handles : obj[h].st = "alive" /\ ~fresh[h] /\ ~joinable(h)

-----------------------------------------------------------------------------
\* C26: each handle owns at most one native thread, and every spawned native
\* thread that has been neither joined nor detached is owned by exactly one
\* handle, which is joinable, across construction, move-construction,
\* move-assignment, join and detach.
Owners(t) == {h \in Handles : obj[h].st = "alive" /\ obj[h].m_handle = t}

C26_OneOwnerPerThread ==
    \A t \in Handles :
        /\ thr[t].os = "joinable" =>
               /\ Cardinality(Owners(t)) = 1
               /\ \A h \in Owners(t) : joinable(h)
        /\ thr[t].os # "joinable" => Owners(t) = {}

\* A running thread is owned by a handle other than the one that spawned it,
\* and the handle that spawned it owns none.
C26_Witness ==
    \E t \in Handles :
        /\ thr[t].os = "joinable"
        /\ Owners(t) # {}
        /\ t \notin Owners(t)
        /\ obj[t].st = "alive"
        /\ ~joinable(t)

-----------------------------------------------------------------------------
\* C23: when the operating system refuses the spawn for lack of privilege,
\* the status handed to the caller is one that no other failure of the
\* native creation is reported with.
C23_PermissionDeniedDistinct ==
    (lret.op = "Init" /\ lret.errno = "EPERM")
        => \A e \in Errnos \ {"EPERM"} : lret.status # CreateFailureStatus(e)

-----------------------------------------------------------------------------
\* C24: an Init that reports a failure of an attribute call or of the native
\* spawn has spawned no thread, and leaves the object not initialized, so
\* that a following Join returns FAILED_THREAD_NOT_INITIALIZED.
InitFailures ==
    {"ERR", "FAILED_SET_PRIORITY", "FAILED_SET_POLICY", "FAILED_SET_INHERIT_SCHED",
     "FAILED_SET_CPU_CORES", "FAILED_INITIALIZE_THREAD"}

C24_FailedInitLeavesIdle ==
    (lret.op = "Init" /\ lret.status \in InitFailures)
        => /\ lret.t = 0
           /\ ~lobj[lret.o].m_isInitialized

-----------------------------------------------------------------------------
\* C27: Init on an object whose previous Init succeeded and which has not
\* been joined returns FAILED_THREAD_ALREADY_INITIALIZED, spawns no native
\* thread and leaves m_thread and m_isInitialized as they were, on every
\* platform branch.
C27_SecondInitRejected ==
    (lret.op = "Init" /\ lret.before.m_isInitialized)
        => /\ lret.status = "FAILED_THREAD_ALREADY_INITIALIZED"
           /\ lret.t = 0
           /\ lobj[lret.o] = lret.before

-----------------------------------------------------------------------------
\* C28: Join on an object that was never initialized successfully, or that
\* has been joined successfully since, returns
\* FAILED_THREAD_NOT_INITIALIZED, without a call of the native join and
\* without blocking.
C28_JoinNotInitialized ==
    /\ (lret.op \in {"Join", "pending"} /\ lret.live = {})
           => /\ lret.status = "FAILED_THREAD_NOT_INITIALIZED"
              /\ lret.t = 0
    /\ lpc.st = "pthread_join" => lret.live # {}

\* A Join on an object whose thread an earlier Join has reaped has returned
\* FAILED_THREAD_NOT_INITIALIZED.
C28_Witness ==
    /\ lret.op = "Join"
    /\ lret.status = "FAILED_THREAD_NOT_INITIALIZED"
    /\ \E t \in LThreads : lthr[t].by = lret.o /\ lthr[t].os = "joined"

-----------------------------------------------------------------------------
\* C29: on every object whose Init returned SUCCESS, whatever other objects
\* were started before, Join(nullptr) returns SUCCESS, and it returns only
\* once the thread function of that object's thread has returned.
C29_JoinWaitsAndSucceeds ==
    (lret.op = "Join" /\ lret.live # {})
        => /\ lret.status = "SUCCESS"
           /\ lret.live = {lret.t}
           /\ lthr[lret.t].pc = "returned"
           /\ lthr[lret.t].os = "joined"

\* Two objects were started, then the first was joined with Join(nullptr),
\* which returned SUCCESS while the thread of the second is still joinable.
C29_Witness ==
    /\ lret.op = "Join"
    /\ lret.arg = "null"
    /\ lret.status = "SUCCESS"
    /\ \E t \in LThreads :
           lthr[t].os = "joinable" /\ lthr[t].by # lret.o /\ t > lret.t

-----------------------------------------------------------------------------
\* C30: after Join(returnValue) returned SUCCESS with a returnValue that is
\* not null, the storage the caller passed holds the value the thread
\* function returned.
C30_JoinStoresReturnValue ==
    (lret.op = "Join" /\ lret.status = "SUCCESS" /\ lret.arg = "storage")
        => store = LValue(lret.t)

-----------------------------------------------------------------------------
\* C31: on the Windows branch of the properties constructor the callable is
\* not invoked before the owner has finished applying policy, priority and
\* affinity: a worker that is past the barrier, or has written its result,
\* belongs to a construction whose property calls and release are done.
C31_CallableAfterProperties ==
    \A t \in Handles :
        (thr[t].pc = "ready" \/ chan[t] # Empty)
            => ~(ownerPc.h = t /\ ownerPc.st \in {"properties", "release"})

\* The worker has passed the barrier while the owner is still in the
\* constructor, after the property calls and the release.
C31_Witness ==
    \E t \in Handles :
        /\ thr[t].pc = "ready"
        /\ ownerPc.h = t
        /\ ownerPc.st = "notify"
        /\ ownerPc.ok

-----------------------------------------------------------------------------
\* C32: on the Windows branch of the properties constructor, under every
\* interleaving of the owner and the worker, a worker at the barrier is
\* eventually released from it, and the join of the constructor's failure
\* path, a later join() and a later getResult() eventually return.
AtBarrier(t) == thr[t].pc \in {"barrier", "checked", "waiting"}

C32_WorkerEventuallyReleased ==
    /\ \A t \in Handles : AtBarrier(t) ~> ~AtBarrier(t)
    /\ (ownerPc.st \in {"ctorJoin", "join", "getResult"}) ~> (ownerPc = Idle)

-----------------------------------------------------------------------------
\* C33: on the Windows branch of the properties constructor, when a property
\* call fails the callable is never invoked and the channel never written,
\* the constructor throws, and when it throws the native thread has
\* terminated and has been joined.
InFailurePath(t) ==
    /\ ownerPc.h = t
    /\ ownerPc.st \in {"release", "setinit", "notify", "ctorJoin"}
    /\ ~ownerPc.ok

CtorThrew ==
    /\ ownerPc = Idle
    /\ ret.op = "thread(p,f)"
    /\ ret.kind = "thrown"

C33_FailedPropertiesThrow ==
    /\ [](\A t \in Handles :
             InFailurePath(t) => thr[t].pc # "ready" /\ chan[t] = Empty)
    /\ [](CtorThrew => /\ thr[ret.h].pc \in {"none", "terminated"}
                       /\ thr[ret.h].os \in {"none", "joined"}
                       /\ chan[ret.h] = Empty)
    /\ \A t \in Handles : InFailurePath(t) ~> CtorThrew

-----------------------------------------------------------------------------
\* C34: whenever SetAffinity skips the native affinity call for a vector
\* that is not empty, the cores the vector flags are all the cores of the
\* machine, so that no restriction the caller asked for is dropped.
C34_ShortcutOnlyWhenAllCores ==
    (/\ ctorPc.st = "done"
     /\ props.affinity # << >>
     /\ SetAffinity(platform, props) = << >>)
        => Flagged(props.affinity) = AllCores(ncores)

-----------------------------------------------------------------------------
\* C35: when the native join fails inside thread::join() or
\* OSCompatibleThread::Join, the error is reported to the caller and the
\* handle is as it was: still joinable (still initialized), with the same
\* native thread, which is still to be joined.
FailsJoin(h) ==
    /\ joinable(h)
    /\ nOps' = nOps + 1
    /\ ownerPc' = Idle
    /\ ret'.op = "join"
    /\ ret'.h = h
    /\ ret'.kind = "thrown"

C35_FailedJoinKeepsHandle ==
    /\ [][\A h \in Handles :
             FailsJoin(h) => /\ ~crashed'
                             /\ obj'[h] = obj[h]
                             /\ joinable(h)'
                             /\ thr' = thr]_vars
    /\ []((lret.op = "Join" /\ lret.status = "FAILED_JOIN_THREAD")
             => /\ lpc = LIdle
                /\ lobj[lret.o] = lret.before
                /\ lobj[lret.o].m_isInitialized
                /\ lobj[lret.o].m_thread = lret.t
                /\ lthr[lret.t].os = "joinable")

\* The native join has failed on a joinable handle of class thread, or on an
\* initialized OSCompatibleThread.
C35_Witness ==
    \/ /\ ret.op = "join"
       /\ ret.kind = "thrown"
       /\ joinable(ret.h)
    \/ /\ lret.op = "Join"
       /\ lret.status = "FAILED_JOIN_THREAD"
       /\ lret.before.m_isInitialized

-----------------------------------------------------------------------------
\* C36: for OSCompatibleThread, in every reachable state m_isInitialized is
\* true exactly when a native thread that Init spawned for the object exists
\* and has not been joined: no Init that returns a failure leaves a native
\* thread running, no Join that reaped the thread leaves m_isInitialized set.
Unjoined(o) == {t \in LThreads : lthr[t].by = o /\ lthr[t].os = "joinable"}

C36_InitializedIffUnjoinedThread ==
    \A o \in LObjs : lobj[o].m_isInitialized <=> Unjoined(o) # {}

-----------------------------------------------------------------------------
\* C37: after Join returned SUCCESS the object is not initialized, and the
\* next Init on it is not refused with FAILED_THREAD_ALREADY_INITIALIZED:
\* when its native calls succeed it spawns a new native thread, owned by the
\* object, that pthread_join can wait for again.
JoinSucceeded(o) ==
    lret.op = "Join" /\ lret.status = "SUCCESS" /\ lret.o = o

InitAfterJoin(o) ==
    JoinSucceeded(o) /\ lret'.op = "Init" /\ lret'.o = o

C37_JoinedHandleReusable ==
    /\ [](\A o \in LObjs : JoinSucceeded(o) => ~lobj[o].m_isInitialized)
    /\ [][\A o \in LObjs :
             InitAfterJoin(o) =>
                 /\ lret'.status # "FAILED_THREAD_ALREADY_INITIALIZED"
                 /\ lret'.status = "SUCCESS" =>
                        /\ lret'.t # 0
                        /\ lthr[lret'.t].pc = "none"
                        /\ lthr'[lret'.t] = Spawned(o)
                        /\ lobj'[o] = [m_isInitialized |-> TRUE,
                                       m_thread |-> lret'.t]
                        /\ PthreadJoin(lobj[o].m_thread)' = {"wait"}]_vars

\* A second Join of the same object returned SUCCESS: both threads were
\* reaped.
C37_Witness ==
    /\ lret.op = "Join"
    /\ lret.status = "SUCCESS"
    /\ Cardinality({t \in LThreads : lthr[t].by = lret.o /\ lthr[t].os = "joined"}) = 2

-----------------------------------------------------------------------------
\* C38: getResult() on a handle built by thread() that was never given a
\* callable never returns: no worker writes the shared state of its promise,
\* so the owner stays inside m_future.get() in every later state.
DefaultConstructed(h) ==
    /\ obj[h].st = "alive"
    /\ thr[h].pc = "none"
    /\ ~moved[h]

InGetResult(h) == ownerPc.st = "getResult" /\ ownerPc.h = h

C38_DefaultGetResultBlocks ==
    /\ [](\A h \in Handles :
             DefaultConstructed(h) => /\ obj[h].m_promise = h
                                      /\ obj[h].m_future = h
                                      /\ chan[h] = Empty)
    /\ [][\A h \in Handles :
             (DefaultConstructed(h) /\ InGetResult(h)) =>
                 /\ InGetResult(h)'
                 /\ DefaultConstructed(h)'
                 /\ ret' = ret]_vars

C38_Witness ==
    \E h \in Handles : DefaultConstructed(h) /\ InGetResult(h)

-----------------------------------------------------------------------------
\* C39: the heap closure a constructor of OSCompatible::thread creates is
\* released exactly once on every path: by threadFuncWrapper once the
\* closure has run when the native spawn succeeded, by the constructor when
\* the native spawn failed; no closure is leaked, none is released twice or
\* before its thread has finished with it.
Running(t) == thr[t].pc \in {"ready", "barrier", "checked", "waiting"}

ReleasedByWrapper ==
    \A t \in Handles :
        /\ closure[t] # "misused"
        /\ closure[t] = "live" <=> Running(t)
        /\ closure[t] = "released" <=> thr[t].pc = "terminated"

C39_ClosureReleasedOnce ==
    /\ ReleasedByWrapper
    /\ orphans = 0

=============================================================================
